---------------------------- MODULE Spec2Model ----------------------------
(***************************************************************************)
(* State-machine model of the two solvers of the repository:               *)
(*   nspso       src/src/algorithms/nspso.cpp                              *)
(*   gi_aco_mo   src/tudatBundle/pagmo2/include/pagmo/algorithms/giACOmo.hpp*)
(*                                                                         *)
(* Conventions.                                                            *)
(*  - Reals (double) are kept on the integer grid; a product with a        *)
(*    fractional factor is rounded toward zero (Quot).                     *)
(*  - C++ indices are 0-based and are stored as such; a TLA+ sequence s    *)
(*    holding a C++ vector v satisfies s[i+1] = v[i].                      *)
(*  - An element store v[i] = e through operator[] is modelled as landing  *)
(*    at position i of the vector (the vector covers the positions that    *)
(*    were stored); the memory fault the same store can produce on an      *)
(*    unsized vector is the separate outcome pc = "aborted".               *)
(*  - The random engine is a deterministic stream: its state is a number,  *)
(*    seeding sets the state, every draw advances it.                      *)
(***************************************************************************)
EXTENDS Integers, Sequences, FiniteSets, TLC

VARIABLES
    alg,                   \* which solver instance this behaviour is about
    pc,                    \* position of the evolve call
    err,                   \* error raised by the last call ("" when none)
    calls,                 \* number of evolve calls made on the instance
    cfg,                   \* the instance's configuration (constructor arguments)
    m_e,                   \* random engine state
    m_seed,                \* stored seed
    m_log,                 \* log of the last evolve
    m_velocity,            \* nspso velocity cache
    reseeded,              \* set_seed was the last operation before this evolve
    prob,                  \* problem of the population being evolved
    pop,                   \* the population: sequence of [x, f]
    pop_input,             \* the population as passed to evolve
    fevals,                \* the problem's fitness evaluation counter
    gen,                   \* loop counter of the generation loop
    next_pop_list,         \* nspso working buffer of particles
    fnds_res,              \* fronts of the population at the start of the generation
    best_non_dom_indices,  \* nspso leader set
    idx,                   \* nspso particle being moved
    next_pop_fit,          \* best_f of the combined set at the last selection
    best_next_pop_indices, \* indices selected at the last selection
    SA,                    \* aco solution archive
    count_impstop,         \* aco counter of generations without improvement
    count_evalstop,        \* aco counter of generations without a new best
    new_ants,              \* aco offspring of the last generation
    prev_best,             \* SA[0][0] at the end of the previous generation
    maxmin,                \* output of compute_maxmin (pure-function check)
    fresh_run,             \* the instance's first evolve: seed, input, result
    committed,             \* the population after the last completed generation of the call
    args                   \* arguments of the last call of population::set_xf

vars == <<alg, pc, err, calls, cfg, m_e, m_seed, m_log, m_velocity, reseeded,
          prob, pop, pop_input, fevals, gen, next_pop_list, fnds_res,
          best_non_dom_indices, idx, next_pop_fit, best_next_pop_indices,
          SA, count_impstop, count_evalstop, new_ants, prev_best, maxmin,
          fresh_run, committed, args>>

-----------------------------------------------------------------------------
(* Bounds of the model *)

MaxSeed == 1
MaxCalls == 2
MaxGen == 2

-----------------------------------------------------------------------------
(* Arithmetic helpers *)

Abs(a) == IF a < 0 THEN -a ELSE a

Min2(a, b) == IF a < b THEN a ELSE b

Max2(a, b) == IF a > b THEN a ELSE b

\* rounding toward zero of a / b, b > 0
Quot(a, b) == IF a >= 0 THEN a \div b ELSE -((-a) \div b)

Range(s) == {s[i] : i \in DOMAIN s}

\* The elements of sequence s that satisfy In, in order
RECURSIVE FilterSeq(_, _)
FilterSeq(s, keep) ==
    IF s = <<>> THEN <<>>
    ELSE (IF Head(s) \in keep THEN <<Head(s)>> ELSE <<>>) \o FilterSeq(Tail(s), keep)

\* s with the store s[i] = e landed (0-based i), the vector covering position i
StoreAt(s, i, e) ==
    [k \in 1..Max2(Len(s), i + 1) |->
        IF k = i + 1 THEN e ELSE IF k <= Len(s) THEN s[k] ELSE e]

\* Insertion sort of the index sequence s by ascending key[i+1]; std::sort on
\* the short ranges met here is the insertion sort, which keeps ties in order.
RECURSIVE InsertByKey(_, _, _)
InsertByKey(sorted, e, key) ==
    IF sorted = <<>> THEN <<e>>
    ELSE IF key[e + 1] < key[sorted[Len(sorted)] + 1]
         THEN InsertByKey(SubSeq(sorted, 1, Len(sorted) - 1), e, key)
                  \o <<sorted[Len(sorted)]>>
         ELSE sorted \o <<e>>

RECURSIVE SortByKey(_, _)
SortByKey(s, key) ==
    IF s = <<>> THEN <<>>
    ELSE InsertByKey(SortByKey(SubSeq(s, 1, Len(s) - 1), key), s[Len(s)], key)

Iota(n) == [k \in 1..n |-> k - 1]

-----------------------------------------------------------------------------
(* Random engine *)

\* one step of the engine
RngNext(s) == (5 * s + 3) % 16

RECURSIVE RngAfter(_, _)
RngAfter(s, k) == IF k = 0 THEN s ELSE RngAfter(RngNext(s), k - 1)

\* value of the k-th next draw from state s, uniform integer in [a, b]
UniformInt(s, k, a, b) == a + ((RngAfter(s, k) \div 2) % (b - a + 1))

\* uniform_real_from_range(a, b, engine) on the integer grid
uniform_real_from_range(s, k, a, b) == UniformInt(s, k, a, b)

\* drng_real(m_e): numerator of a real in [0,1) over the denominator 2
drng_real(s, k) == UniformInt(s, k, 0, 1)

-----------------------------------------------------------------------------
(* Problems and populations (the inputs of evolve) *)

\* std::numeric_limits<double>::infinity(); every magnitude at or beyond it
\* is held at this value (also the boundary points' crowding distance)
Infinite == 1000 * 1000

Saturate(v) == IF v > Infinite THEN Infinite ELSE IF v < -Infinite THEN -Infinite ELSE v

Square(v) == IF Abs(v) >= 1000 THEN Infinite ELSE v * v

\* fitness function of a problem: objectives first, then constraints
Fitness(p, x) ==
    (IF p.nobj = 2 THEN <<x[1], Square(x[1] - 1)>> ELSE <<Square(x[1] - 1)>>)
        \o [k \in 1..p.nec |-> x[1]]

Individual(p, x) == [x |-> x, f |-> Fitness(p, x)]

BoxProblem(name, lo, hi, nobj) ==
    [name |-> name, nx |-> 1, nix |-> 0, nobj |-> nobj, nec |-> 0, nic |-> 0,
     stochastic |-> FALSE, throws |-> FALSE, lb |-> <<lo>>, ub |-> <<hi>>]

WideProblem == BoxProblem("wide", 0, 2, 2)

NarrowProblem == BoxProblem("narrow", 0, 1, 2)

ScalarProblem == BoxProblem("scalar", 0, 3, 1)

\* problems whose fitness function may throw at any evaluation
ThrowingProblem == [BoxProblem("throwing", 0, 2, 2) EXCEPT !.throws = TRUE]

ThrowingScalarProblem == [BoxProblem("throwing scalar", 0, 3, 1) EXCEPT !.throws = TRUE]

\* problems the solvers are documented not to handle
IntegerProblem == [BoxProblem("integer", 0, 2, 2) EXCEPT !.nix = 1]

StochasticProblem == [BoxProblem("stochastic", 0, 2, 2) EXCEPT !.stochastic = TRUE]

ConstrainedProblem == [BoxProblem("constrained", 0, 2, 2) EXCEPT !.nec = 1]

ConstrainedScalarProblem == [BoxProblem("constrained scalar", 0, 3, 1) EXCEPT !.nec = 1]

get_nf(p) == p.nobj + p.nec + p.nic

\* a problem that reports no constraint whatever its fitness holds
get_nc_ignored(p) == 0

get_nc(p) == p.nec + p.nic

InBounds(p, x) == \A j \in 1..p.nx : p.lb[j] <= x[j] /\ x[j] <= p.ub[j]

SwarmSizes == {2, 3}

\* the populations of n distinct individuals over problem p, up to the order
\* of the individuals
PopulationsOf(p, n) ==
    {[i \in 1..n |-> Individual(p, <<xs[i]>>)] :
        xs \in {ys \in [1..n -> p.lb[1]..p.ub[1]] :
                   \A i \in 1..(n - 1) : ys[i] < ys[i + 1]}}

NspsoInputs ==
    UNION {{<<p, P>> : P \in UNION {PopulationsOf(p, n) : n \in SwarmSizes}} :
              p \in {WideProblem, NarrowProblem}}
    \cup {<<WideProblem, <<>>>>}
    \cup {<<ScalarProblem, <<Individual(ScalarProblem, <<0>>)>>>>}
    \cup {<<NarrowProblem, <<Individual(NarrowProblem, <<0>>)>>>>}
    \cup {<<p, <<Individual(p, <<0>>), Individual(p, <<1>>)>>>> :
              p \in {ThrowingProblem, IntegerProblem, StochasticProblem,
                      ConstrainedProblem}}

-----------------------------------------------------------------------------
(* Multi-objective utilities of the framework (pagmo/utils/multi_objective) *)

\* Pareto dominance: a dominates b
Dominates(a, b) ==
    /\ \A k \in DOMAIN a : a[k] <= b[k]
    /\ \E k \in DOMAIN a : a[k] < b[k]

\* non-domination rank of row i (0-based) of F
RECURSIVE NdRank(_, _)
NdRank(F, i) ==
    LET doms == {j \in 0..(Len(F) - 1) : Dominates(F[j + 1], F[i + 1])}
    IN  IF doms = {} THEN 0
        ELSE 1 + (CHOOSE m \in {NdRank(F, j) : j \in doms} :
                     \A n \in {NdRank(F, j) : j \in doms} : n <= m)

\* the non-dominated fronts of F, best first, each in ascending index order
fast_non_dominated_sorting(F) ==
    LET rk == [i \in 1..Len(F) |-> NdRank(F, i - 1)]
        nf == IF F = <<>> THEN 0
              ELSE 1 + (CHOOSE m \in Range(rk) : \A n \in Range(rk) : n <= m)
    IN  [r \in 1..nf |-> FilterSeq(Iota(Len(F)), {i \in 0..(Len(F) - 1) : rk[i + 1] = r - 1})]

\* componentwise minimum / maximum of the rows of F
ideal(F) ==
    IF F = <<>> THEN <<>>
    ELSE [k \in DOMAIN F[1] |->
            CHOOSE m \in {F[i][k] : i \in DOMAIN F} : \A i \in DOMAIN F : m <= F[i][k]]

nadir(F) ==
    IF F = <<>> THEN <<>>
    ELSE [k \in DOMAIN F[1] |->
            CHOOSE m \in {F[i][k] : i \in DOMAIN F} : \A i \in DOMAIN F : m >= F[i][k]]

\* Crowding distance of the members of one front, as numerators over the
\* common denominator (product of the objective ranges of the front);

FrontSpan(F, front, k) ==
    LET vals == {F[i + 1][k] : i \in Range(front)}
    IN  (CHOOSE m \in vals : \A v \in vals : v <= m)
          - (CHOOSE m \in vals : \A v \in vals : m <= v)

crowding_distance(F, front) ==
    LET nobj == Len(F[front[1] + 1])
        key(k) == [i \in 1..Len(F) |-> F[i][k]]
        order(k) == SortByKey(front, key(k))
        pos(k, i) == CHOOSE q \in 1..Len(front) : order(k)[q] = i
        scale(k) == LET others == {FrontSpan(F, front, m) : m \in (1..nobj) \ {k}}
                    IN  IF others = {} \/ 0 \in others THEN 1
                        ELSE IF nobj = 2 THEN FrontSpan(F, front, 3 - k) ELSE 1
        term(k, i) ==
            IF pos(k, i) = 1 \/ pos(k, i) = Len(front) THEN Infinite
            ELSE IF FrontSpan(F, front, k) = 0 THEN 0
            ELSE (F[order(k)[pos(k, i) + 1] + 1][k] - F[order(k)[pos(k, i) - 1] + 1][k])
                    * scale(k)
        total(i) == IF Len(front) < 3 THEN Infinite
                    ELSE Min2(Infinite, term(1, i) + (IF nobj >= 2 THEN term(2, i) ELSE 0))
    IN  [i \in 1..Len(F) |-> IF (i - 1) \in Range(front) THEN total(i - 1) ELSE 0]

\* sort_population_mo: fronts in order, each by descending crowding distance
RECURSIVE ConcatFronts(_, _, _)
ConcatFronts(F, fronts, r) ==
    IF r > Len(fronts) THEN <<>>
    ELSE LET cd == crowding_distance(F, fronts[r])
             negcd == [i \in 1..Len(F) |-> -cd[i]]
         IN  SortByKey(fronts[r], negcd) \o ConcatFronts(F, fronts, r + 1)

sort_population_mo(F) == ConcatFronts(F, fast_non_dominated_sorting(F), 1)

-----------------------------------------------------------------------------
(* nspso: numerical kernels *)

\* nspso::minfit(i, j, fit)
minfit(i, j, fit) ==
    LET d == {fit[i + 1][f] - fit[j + 1][f] : f \in DOMAIN fit[i + 1]}
    IN  CHOOSE m \in d : \A v \in d : m <= v

compute_maxmin_first_only(fit) ==
    [k \in 1..Len(fit) |-> minfit(k - 1, k % Len(fit), fit)]

\* nspso::compute_maxmin: the vector written into maxmin
compute_maxmin(fit) ==
    LET np == Len(fit)
        start(i) == minfit(i, (i + 1) % np, fit)
        cand(i) == {start(i)} \cup {minfit(i, j, fit) : j \in (0..(np - 1)) \ {i}}
    IN  [k \in 1..np |-> CHOOSE m \in cand(k - 1) : \A v \in cand(k - 1) : v <= m]

\* square of nspso::euclidian_distance(x, y)
euclidian_distance_sq(x, y) ==
    LET sq == [i \in DOMAIN x |-> (x[i] - y[i]) * (x[i] - y[i])]
        sum[i \in 0..Len(x)] == IF i = 0 THEN 0 ELSE sum[i - 1] + sq[i]
    IN  sum[Len(x)]

\* euclidian_distance(x, y) < delta for delta = num / den (den >= 0; with
\* den = 0 the double division gives +infinity for num > 0 and NaN for num = 0)
WithinDelta(x, y, num, den) ==
    IF den = 0 THEN num > 0
    ELSE euclidian_distance_sq(x, y) * den * den < num * num

\* nspso::compute_niche_count with delta = num / den
compute_niche_count(chromosomes, num, den) ==
    [i \in DOMAIN chromosomes |->
        Cardinality({j \in DOMAIN chromosomes :
                        WithinDelta(chromosomes[i], chromosomes[j], num, den)})]

-----------------------------------------------------------------------------
(* nspso: leader set (step 1 of the generation loop) *)

RECURSIVE NicheFallback(_, _, _, _, _)
\* the else branch of "niche count": the double loop storing
\* best_non_dom_indices[i] = ndf[f][i] while min_pop_size > 0
NicheFallback(ndf, f, i, min_pop_size, acc) ==
    IF min_pop_size = 0 \/ f > Len(ndf) THEN acc
    ELSE IF i >= Len(ndf[f]) THEN NicheFallback(ndf, f + 1, 0, min_pop_size, acc)
    ELSE NicheFallback(ndf, f, i + 1, min_pop_size - 1, StoreAt(acc, i, ndf[f][i + 1]))

LeaderNiche(fit, npl, ndf) ==
    LET non_dom_chromosomes == [i \in 1..Len(ndf[1]) |-> npl[ndf[1][i] + 1].best_x]
        nadir_point == nadir(fit)
        ideal_point == ideal(fit)
        num == (nadir_point[1] - ideal_point[1]) + (nadir_point[2] - ideal_point[2])
        den == Len(non_dom_chromosomes) - 1
        count == compute_niche_count(non_dom_chromosomes, num, den)
        sort_list == SortByKey(Iota(Len(count)), count)
    IN  IF Len(ndf[1]) > 1
        THEN [i \in 1..Len(sort_list) |-> ndf[1][sort_list[i] + 1]]
        ELSE NicheFallback(ndf, 1, 0, 2, <<>>)

RECURSIVE NegPrefix(_, _, _)
\* the scan "for (i = 1; i < size && maxmin[bnd[i]] < 0; ++i)"
NegPrefix(bnd, mm, i) ==
    IF i < Len(bnd) /\ mm[bnd[i + 1] + 1] < 0 THEN NegPrefix(bnd, mm, i + 1) ELSE i

LeaderMaxMin(fit) ==
    LET mm == compute_maxmin(fit)
        sort_list_2 == SortByKey(Iota(Len(fit)), mm)
        i == Max2(2, NegPrefix(sort_list_2, mm, 1))
    IN  SubSeq(sort_list_2, 1, Min2(i, Len(sort_list_2)))

LeaderSet(mech, fit, npl, ndf) ==
    IF mech = "crowding distance" THEN sort_population_mo(fit)
    ELSE IF mech = "niche count" THEN LeaderNiche(fit, npl, ndf)
    ELSE LeaderMaxMin(fit)

\* ext of step 2.1. size * range / 100 is an integer division; the unsigned
\* subtraction 0 - 1 wraps to the largest unsigned value, for which a
\* number just below 2^31 stands in (any index it yields is out of range).
LeaderExt(size, range) ==
    LET q == (size * range) \div 100
        e == IF q = 0 THEN 2147483646 ELSE q - 1
    IN  IF e < 1 THEN 1 ELSE e

-----------------------------------------------------------------------------
(* nspso: velocity band and the move of one particle (step 2) *)

vwidth(c, p, j) == Quot((p.ub[j] - p.lb[j]) * c.v_coeff_num, c.v_coeff_den)

minv(c, p, j) == -vwidth(c, p, j)

maxv(c, p, j) == vwidth(c, p, j)

MoveCoordinateUnclamped(c, p, g, part, leader, r1, r2, i) ==
    LET wnum == c.max_w * c.gen - (c.max_w - c.min_w) * g
        raw == Quot(2 * wnum * part.cur_v[i]
                      + c.gen * c.c1 * r1 * (part.best_x[i] - part.cur_x[i])
                      + c.gen * c.c2 * r2 * (leader[i] - part.cur_x[i]),
                    2 * c.gen)
        v == IF raw > maxv(c, p, i) THEN maxv(c, p, i)
             ELSE IF raw < minv(c, p, i) THEN minv(c, p, i) ELSE raw
    IN  [x |-> part.cur_x[i] + c.chi * v, v |-> v]

\* the velocity and position of coordinate i after the update of lines 336-360
MoveCoordinate(c, p, g, part, leader, r1, r2, i) ==
    LET wnum == c.max_w * c.gen - (c.max_w - c.min_w) * g
        raw == Quot(2 * wnum * part.cur_v[i]
                      + c.gen * c.c1 * r1 * (part.best_x[i] - part.cur_x[i])
                      + c.gen * c.c2 * r2 * (leader[i] - part.cur_x[i]),
                    2 * c.gen)
        v == IF raw > maxv(c, p, i) THEN maxv(c, p, i)
             ELSE IF raw < minv(c, p, i) THEN minv(c, p, i) ELSE raw
        x == part.cur_x[i] + c.chi * v
    IN  IF x > p.ub[i] THEN [x |-> p.ub[i], v |-> 0]
        ELSE IF x < p.lb[i] THEN [x |-> p.lb[i], v |-> 0]
        ELSE [x |-> x, v |-> v]

\* a moved particle that keeps the personal best of the particle it came from
MovedParticleKeepingBest(c, p, g, part, leader, r1, r2) ==
    LET m == [i \in DOMAIN part.cur_x |-> MoveCoordinate(c, p, g, part, leader, r1, r2, i)]
        new_dvs == [i \in DOMAIN m |-> m[i].x]
        new_vel == [i \in DOMAIN m |-> m[i].v]
    IN  [cur_x |-> new_dvs, best_x |-> part.best_x, cur_v |-> new_vel,
         cur_f |-> Fitness(p, new_dvs), best_f |-> part.best_f]

\* the particle appended to next_pop_list for particle part
MovedParticle(c, p, g, part, leader, r1, r2) ==
    LET m == [i \in DOMAIN part.cur_x |-> MoveCoordinate(c, p, g, part, leader, r1, r2, i)]
        new_dvs == [i \in DOMAIN m |-> m[i].x]
        new_vel == [i \in DOMAIN m |-> m[i].v]
    IN  [cur_x |-> new_dvs, best_x |-> new_dvs, cur_v |-> new_vel,
         cur_f |-> Fitness(p, new_dvs), best_f |-> Fitness(p, new_dvs)]

-----------------------------------------------------------------------------
(* nspso: environmental selection (step 3) *)

RECURSIVE Shuffle(_, _, _)
\* std::shuffle(first, last, m_e): position i swapped with a drawn position
\* in [0, i], for i = 1 .. n-1; the k-th draw of the call is for i = k
Shuffle(s, e, i) ==
    IF i >= Len(s) THEN s
    ELSE LET j == UniformInt(e, i, 0, i)
             t == [k \in DOMAIN s |-> IF k = i + 1 THEN s[j + 1]
                                      ELSE IF k = j + 1 THEN s[i + 1] ELSE s[k]]
         IN  Shuffle(t, e, i + 1)

ShuffleDraws(s) == IF Len(s) = 0 THEN 0 ELSE Len(s) - 1

RECURSIVE SelectFronts(_, _, _, _, _)
\* the loop over the fronts of lines 392-411; returns the index list and the
\* engine state
SelectFronts(ndf_next, f, acc, swarm_size, e) ==
    IF Len(acc) >= swarm_size \/ f > Len(ndf_next) THEN [best |-> acc, e |-> e]
    ELSE IF Len(ndf_next[f]) < swarm_size - Len(acc)
    THEN SelectFronts(ndf_next, f + 1, acc \o ndf_next[f], swarm_size, e)
    ELSE LET sh == Shuffle(ndf_next[f], e, 1)
         IN  SelectFronts(ndf_next, f + 1,
                          acc \o SubSeq(sh, 1, swarm_size - Len(acc)), swarm_size,
                          RngAfter(e, ShuffleDraws(ndf_next[f])))

\* the fronts the selection loop walks: std::get<0>(fnds_res), the fronts of
\* the population at the start of the generation (fnds_res_next is not read)
ndf_next(fronts_pop, fit_next) == fronts_pop

\* the max min branch: sort_list_3 holds swarm_size indices
sort_list_3(swarm_size, fit_next) ==
    SortByKey(Iota(swarm_size), compute_maxmin(fit_next))

Selection(mech, fronts_pop, fit_next, swarm_size, e) ==
    IF mech # "max min"
    THEN SelectFronts(ndf_next(fronts_pop, fit_next), 1, <<>>, swarm_size, e)
    ELSE [best |-> SubSeq(sort_list_3(swarm_size, fit_next), 1, swarm_size), e |-> e]

-----------------------------------------------------------------------------
(* population: the replace operation, and the commit loops that use it *)

\* population::set_xf(i, x, f): individual i replaced, nothing evaluated
set_xf(P, i, x, f) == [P EXCEPT ![i + 1] = [x |-> x, f |-> f]]

RECURSIVE CommitFrom(_, _, _, _)
CommitFrom(P, list, swarm_size, i) ==
    IF i >= swarm_size THEN P
    ELSE CommitFrom(set_xf(P, i, list[i + 1].cur_x, list[i + 1].cur_f), list, swarm_size, i + 1)

CommitByPushBack(P, list, swarm_size) ==
    P \o [i \in 1..swarm_size |-> [x |-> list[i].cur_x, f |-> list[i].cur_f]]

\* the loop of nspso::evolve writing next_pop_list back (lines 439-441)
CommitPopulation(P, list, swarm_size) == CommitFrom(P, list, swarm_size, 0)

-----------------------------------------------------------------------------
(* nspso: the instance and its operations *)

Mechanisms == {"crowding distance", "niche count", "max min"}

\* arguments in the middle of their documented ranges (verbosity is the
\* level given to set_verbosity)
NspsoNominal(g, m, vb) ==
    [gen |-> g, min_w |-> 1, max_w |-> 2, c1 |-> 1, c2 |-> 2, chi |-> 1,
     v_coeff_num |-> 1, v_coeff_den |-> 1, leader_selection_range |-> 100,
     diversity_mechanism |-> m, verbosity |-> vb]

\* arguments handed to the constructor: the nominal ones with every log
\* line kept, with every second log line kept, and a nominal one-generation
\* instance with one argument moved to or past the end of its range
NspsoArgs ==
    LET one == NspsoNominal(1, "crowding distance", 1)
    IN  {NspsoNominal(g, m, 1) : g \in 0..MaxGen, m \in Mechanisms}
        \cup {NspsoNominal(g, "crowding distance", 2) : g \in 0..MaxGen}
        \cup {[one EXCEPT !.min_w = w] : w \in {0, 3}}
        \cup {[one EXCEPT !.max_w = 0], [one EXCEPT !.c1 = 0], [one EXCEPT !.c2 = 0],
               [one EXCEPT !.chi = 0], [one EXCEPT !.diversity_mechanism = "none"]}
        \cup {[one EXCEPT !.v_coeff_num = v] : v \in {0, 2}}
        \cup {[one EXCEPT !.leader_selection_range = r] : r \in {0, 101}}

\* the constructor throws invalid_argument (lines 61-85)
NspsoRejects(c) ==
    \/ c.min_w <= 0 \/ c.max_w <= 0 \/ c.c1 <= 0 \/ c.c2 <= 0 \/ c.chi <= 0
    \/ c.min_w > c.max_w
    \/ c.v_coeff_num <= 0 \/ c.v_coeff_num > c.v_coeff_den
    \/ c.leader_selection_range > 100
    \/ c.diversity_mechanism \notin Mechanisms

\* configurations of the instances the constructor returns (lines 55-86)
NspsoConfigs == {c \in NspsoArgs : ~NspsoRejects(c)}

NoProblem == BoxProblem("none", 0, 0, 0)

NoRun == [seed |-> -1, prob |-> NoProblem, input |-> <<>>, pop |-> <<>>, log |-> <<>>]

\* the variables of the other solver and of the kernel check, never touched
NspsoFrame == UNCHANGED <<alg, cfg, SA, count_impstop, count_evalstop, new_ants,
                          prev_best, maxmin, args>>

InitNspso ==
    /\ alg = "nspso"
    /\ pc = "idle"
    /\ err = ""
    /\ calls = 0
    /\ cfg \in NspsoConfigs
    /\ m_seed \in 0..MaxSeed
    /\ m_e = m_seed
    /\ m_log = <<>>
    /\ m_velocity = <<>>
    /\ reseeded = TRUE
    /\ prob = NoProblem
    /\ pop = <<>>
    /\ pop_input = <<>>
    /\ fevals = 0
    /\ gen = 0
    /\ next_pop_list = <<>>
    /\ fnds_res = <<>>
    /\ best_non_dom_indices = <<>>
    /\ idx = 0
    /\ next_pop_fit = <<>>
    /\ best_next_pop_indices = <<>>
    /\ SA = <<>>
    /\ count_impstop = 0
    /\ count_evalstop = 0
    /\ new_ants = <<>>
    /\ prev_best = 0
    /\ maxmin = <<>>
    /\ fresh_run = NoRun
    /\ committed = <<>>
    /\ args = <<>>

\* nspso::set_seed (lines 452-456)
NspsoSetSeed(s) ==
    /\ alg = "nspso"
    /\ pc = "idle"
    /\ calls < MaxCalls
    /\ m_e' = s
    /\ m_seed' = s
    /\ reseeded' = TRUE
    /\ UNCHANGED <<pc, err, calls, m_log, m_velocity, prob, pop, pop_input, fevals,
                   gen, next_pop_list, fnds_res, best_non_dom_indices, idx,
                   next_pop_fit, best_next_pop_indices, fresh_run, committed>>
    /\ NspsoFrame

\* a caller whose population is the very object evolve works on
CallerPopulationShared(arg, local, status) == local

\* the population the caller holds once evolve has ended: evolve receives its
\* population by value and hands its copy back only by "return pop"
\* (nspso.cpp:95, giACOmo.hpp:177)
CallerPopulation(arg, local, status) ==
    IF status = "done" THEN local ELSE arg

\* a run that would never return at once, whatever the number of generations
ReturnsNever(c) == FALSE

\* "if (m_gen == 0u) return pop;" (nspso.cpp:131-133, giACOmo.hpp:213-215)
ReturnsAtOnce(c) == c.gen = 0

\* the preamble of nspso::evolve (lines 112-130)
NspsoUnsuitable(p, P) ==
    \/ p.nx = 0
    \/ p.stochastic
    \/ get_nc(p) # 0
    \/ get_nf(p) < 2
    \/ Len(P) = 0

\* m_velocity after lines 153-160, and the number of draws made
InitialVelocity(c, p, swarm_size, e) ==
    [i \in 1..swarm_size |->
        [j \in 1..p.nx |->
            uniform_real_from_range(e, (i - 1) * p.nx + j, minv(c, p, j), maxv(c, p, j))]]

\* next_pop_list after lines 163-171
CopyPopulation(P, velocity) ==
    [i \in 1..Len(P) |->
        [cur_x |-> P[i].x, best_x |-> P[i].x, cur_v |-> velocity[i],
         cur_f |-> P[i].f, best_f |-> P[i].f]]

\* nspso::evolve from its entry to the head of the generation loop
NspsoEvolve(p, P) ==
    /\ alg = "nspso"
    /\ pc = "idle"
    /\ calls < MaxCalls
    /\ calls' = calls + 1
    /\ prob' = p
    /\ pop' = P
    /\ pop_input' = P
    /\ committed' = P
    /\ fevals' = 0
    /\ UNCHANGED <<m_seed, reseeded, fnds_res, best_non_dom_indices, idx,
                   next_pop_fit, best_next_pop_indices, fresh_run>>
    /\ NspsoFrame
    /\ IF NspsoUnsuitable(p, P)
       THEN /\ pc' = "error"
            /\ err' = "invalid_argument"
            /\ UNCHANGED <<m_e, m_log, m_velocity, gen, next_pop_list>>
       ELSE IF ReturnsAtOnce(cfg)
       THEN /\ pc' = "done"
            /\ err' = ""
            /\ UNCHANGED <<m_e, m_log, m_velocity, gen, next_pop_list>>
       ELSE LET fresh == Len(m_velocity) # Len(P)
                vel == IF fresh THEN InitialVelocity(cfg, p, Len(P), m_e) ELSE m_velocity
            IN  /\ err' = ""
                /\ m_log' = <<>>
                /\ m_velocity' = vel
                /\ m_e' = IF fresh THEN RngAfter(m_e, Len(P) * p.nx) ELSE m_e
                /\ \/ /\ next_pop_list' = CopyPopulation(P, vel)
                      /\ gen' = 1
                      /\ pc' = "loop"
                   \/ /\ next_pop_list' = <<>>
                      /\ gen' = 0
                      /\ pc' = "aborted"

\* a log that takes its line at every multiple of the verbosity
LogLineAtMultiples(c, g, fe, fit) ==
    IF c.verbosity > 0 /\ (g % c.verbosity = 0 \/ c.verbosity = 1)
    THEN <<[gen |-> g, fevals |-> fe, ideal |-> ideal(fit)]>>
    ELSE <<>>

\* the log line of lines 181-210
LogLine(c, g, fe, fit) ==
    IF c.verbosity > 0 /\ (g % c.verbosity = 1 \/ c.verbosity = 1)
    THEN <<[gen |-> g, fevals |-> fe, ideal |-> ideal(fit)]>>
    ELSE <<>>

PopF(P) == [i \in DOMAIN P |-> P[i].f]

\* head of one generation: the sorting, the log line and the leader set
NspsoGeneration ==
    /\ alg = "nspso"
    /\ pc = "loop"
    /\ gen <= cfg.gen
    /\ fnds_res' = fast_non_dominated_sorting(PopF(pop))
    /\ m_log' = m_log \o LogLine(cfg, gen, fevals, PopF(pop))
    /\ best_non_dom_indices' =
           LeaderSet(cfg.diversity_mechanism, PopF(pop), next_pop_list, fnds_res')
    /\ idx' = 0
    /\ pc' = "move"
    /\ UNCHANGED <<err, calls, m_e, m_seed, m_velocity, reseeded, prob, pop, pop_input,
                   fevals, gen, next_pop_list, next_pop_fit, best_next_pop_indices,
                   fresh_run, committed>>
    /\ NspsoFrame

\* the particle moved towards the leader whose index was read from the leader set
NspsoMoveWith(leader_particle, e) ==
    LET r1 == drng_real(e, 1)
        r2 == drng_real(e, 2)
        leader == next_pop_list[leader_particle + 1].best_x
    IN  IF prob.nx - prob.nix < prob.nx
        THEN \* new_dvs(n_cx) is written at n_x positions, then handed to
             \* prob.fitness with the wrong dimension
             /\ m_e' = RngAfter(e, 2)
             /\ pc' \in {"error", "aborted"}
             /\ err' = IF pc' = "error" THEN "invalid_argument" ELSE err
             /\ UNCHANGED <<next_pop_list, fevals, idx>>
        ELSE \/ /\ next_pop_list' =
                       Append(next_pop_list,
                              MovedParticle(cfg, prob, gen, next_pop_list[idx + 1],
                                            leader, r1, r2))
                /\ m_e' = RngAfter(e, 2)
                /\ fevals' = fevals + 1
                /\ idx' = idx + 1
                /\ pc' = IF idx + 1 < Len(pop) THEN "move" ELSE "select"
                /\ err' = err
             \/ \* prob.fitness(new_dvs) throws
                /\ prob.throws
                /\ m_e' = RngAfter(e, 2)
                /\ pc' = "error"
                /\ err' = "fitness_error"
                /\ UNCHANGED <<next_pop_list, fevals, idx>>

\* one draw of the leader (lines 310-322) and, unless the draw is repeated,
\* the move of particle idx (lines 324-370)
NspsoMove ==
    /\ alg = "nspso"
    /\ pc = "move"
    /\ UNCHANGED <<calls, m_seed, m_log, m_velocity, reseeded, prob, pop, pop_input,
                   gen, fnds_res, best_non_dom_indices, next_pop_fit,
                   best_next_pop_indices, fresh_run, committed>>
    /\ NspsoFrame
    /\ LET ext == LeaderExt(Len(best_non_dom_indices), cfg.leader_selection_range)
           leader_idx == UniformInt(m_e, 1, 0, ext)
           e == RngNext(m_e)
       IN  IF leader_idx < Len(best_non_dom_indices)
           THEN IF best_non_dom_indices[leader_idx + 1] = idx
                THEN /\ m_e' = e
                     /\ UNCHANGED <<next_pop_list, fevals, idx, pc, err>>
                ELSE NspsoMoveWith(best_non_dom_indices[leader_idx + 1], e)
           ELSE \* read past the end of best_non_dom_indices
                \/ \E g \in 0..(Len(pop) - 1) :
                      IF g = idx
                      THEN /\ m_e' = e
                           /\ UNCHANGED <<next_pop_list, fevals, idx, pc, err>>
                      ELSE NspsoMoveWith(g, e)
                \/ /\ pc' = "aborted"
                   /\ UNCHANGED <<m_e, next_pop_list, fevals, idx, err>>

\* environmental selection and commit (lines 376-441)
NspsoSelect ==
    /\ alg = "nspso"
    /\ pc = "select"
    /\ LET swarm_size == Len(pop)
           fit == [i \in DOMAIN next_pop_list |-> next_pop_list[i].best_f]
           sel == Selection(cfg.diversity_mechanism, fnds_res, fit, swarm_size, m_e)
           tmp_pop == [i \in 1..swarm_size |-> next_pop_list[sel.best[i] + 1]]
       IN  /\ next_pop_fit' = fit
           /\ best_next_pop_indices' = sel.best
           /\ m_e' = sel.e
           /\ next_pop_list' = tmp_pop
           /\ pop' = CommitPopulation(pop, tmp_pop, swarm_size)
           /\ committed' = CommitPopulation(pop, tmp_pop, swarm_size)
    /\ gen' = gen + 1
    /\ pc' = "loop"
    /\ UNCHANGED <<err, calls, m_seed, m_log, m_velocity, reseeded, prob, pop_input,
                   fevals, fnds_res, best_non_dom_indices, idx, fresh_run>>
    /\ NspsoFrame

\* "return pop" after the loop (line 445)
NspsoReturn ==
    /\ alg = "nspso"
    /\ pc = "loop"
    /\ gen > cfg.gen
    /\ pc' = "done"
    /\ UNCHANGED <<err, calls, m_e, m_seed, m_log, m_velocity, reseeded, prob, pop,
                   pop_input, fevals, gen, next_pop_list, fnds_res, best_non_dom_indices,
                   idx, next_pop_fit, best_next_pop_indices, fresh_run, committed>>
    /\ NspsoFrame

\* the caller takes the result (or the error); the instance is idle again
NspsoIdle ==
    /\ alg = "nspso"
    /\ pc \in {"done", "error"}
    /\ pc' = "idle"
    /\ err' = ""
    /\ reseeded' = FALSE
    /\ fresh_run' = IF calls = 1 /\ pc = "done"
                    THEN [seed |-> m_seed, prob |-> prob, input |-> pop_input,
                          pop |-> pop, log |-> m_log]
                    ELSE fresh_run
    /\ prob' = NoProblem
    /\ pop' = <<>>
    /\ pop_input' = <<>>
    /\ committed' = <<>>
    /\ fevals' = 0
    /\ gen' = 0
    /\ next_pop_list' = <<>>
    /\ fnds_res' = <<>>
    /\ best_non_dom_indices' = <<>>
    /\ idx' = 0
    /\ next_pop_fit' = <<>>
    /\ best_next_pop_indices' = <<>>
    /\ UNCHANGED <<calls, m_e, m_seed, m_log, m_velocity>>
    /\ NspsoFrame

\* the instance is saved and loaded into a newly constructed instance, which
\* takes its place: serialize (lines 490-493) carries the configuration,
\* m_e, m_seed, m_verbosity and m_log; m_velocity is not in the archive and
\* stays as the constructor of the new instance made it (line 58)
NspsoSaveLoad ==
    /\ alg = "nspso"
    /\ pc = "idle"
    /\ calls < MaxCalls
    /\ m_velocity # <<>>
    /\ m_velocity' = <<>>
    /\ UNCHANGED <<pc, err, calls, m_e, m_seed, m_log, reseeded, prob, pop, pop_input,
                   fevals, gen, next_pop_list, fnds_res, best_non_dom_indices, idx,
                   next_pop_fit, best_next_pop_indices, fresh_run, committed>>
    /\ NspsoFrame

NextNspso ==
    \/ \E s \in 0..MaxSeed : NspsoSetSeed(s)
    \/ \E pP \in NspsoInputs : NspsoEvolve(pP[1], pP[2])
    \/ NspsoGeneration
    \/ NspsoMove
    \/ NspsoSelect
    \/ NspsoReturn
    \/ NspsoIdle

SpecNspso == InitNspso /\ [][NextNspso]_vars

\* nspso instances that are saved and loaded between their runs: the
\* instances of one diversity mechanism, with both log frequencies
InitSerialize ==
    /\ InitNspso
    /\ cfg.diversity_mechanism = "crowding distance"
    /\ cfg.leader_selection_range = 100

NextSerialize ==
    \/ NextNspso
    \/ NspsoSaveLoad

SpecSerialize == InitSerialize /\ [][NextSerialize]_vars

\* evolve is one sequential call: once entered, its next statement is executed
NspsoRun == NspsoGeneration \/ NspsoMove \/ NspsoSelect \/ NspsoReturn

\* the runs of the instances of one diversity mechanism, every statement of
\* evolve being executed in its turn
SpecNspsoRun == InitSerialize /\ [][NextNspso]_vars /\ WF_vars(NspsoRun)

-----------------------------------------------------------------------------
(* gi_aco_mo: penalties and the sorted lists of one generation *)

\* penalty_computation for a fitness vector without constraint residuals
\* (res = 0), in thousandths: -|f - oracle| when f <= oracle, else
\* alpha * diff with alpha = (6 sqrt(3) - 2) / (6 sqrt(3)) = 0.807...
penalty_computation(f, c) ==
    LET fitness == f[1]
        diff == Abs(fitness - c.oracle)
    IN  IF fitness <= c.oracle THEN Saturate(-(diff * 1000)) ELSE Saturate(diff * 807)

\* the feasibility screen of lines 297-311 (T = 0 and T_2 = 0)
Feasible(p, f, c) ==
    /\ ~ \E i_nec \in 1..p.nec : Abs(f[i_nec + 1]) > c.acc
    /\ ~ \E i_nic \in 1..p.nic : f[i_nic + 1] >= -c.acc

\* penalties after the loop of lines 286-324: the vector is constructed with
\* NP elements and every individual's value is pushed behind them
Penalties(p, P, c) ==
    [i \in 1..Len(P) |-> 0]
        \o [i \in 1..Len(P) |->
               IF Feasible(p, P[i].f, c) THEN penalty_computation(P[i].f, c)
               ELSE Infinite]

feasible_set(p, P, c) == Cardinality({i \in 1..Len(P) : Feasible(p, P[i].f, c)})

RECURSIVE InsertValue(_, _)
InsertValue(sorted, v) ==
    IF sorted = <<>> THEN <<v>>
    ELSE IF v < sorted[Len(sorted)]
         THEN InsertValue(SubSeq(sorted, 1, Len(sorted) - 1), v) \o <<sorted[Len(sorted)]>>
         ELSE sorted \o <<v>>

RECURSIVE SortValues(_)
\* std::sort(sorted_penalties.begin(), sorted_penalties.end())
SortValues(s) ==
    IF s = <<>> THEN <<>>
    ELSE InsertValue(SortValues(SubSeq(s, 1, Len(s) - 1)), s[Len(s)])

RECURSIVE SortList(_, _, _, _)
\* sort_list after the loops of lines 332-369: penalties.size() zeros, then
\* for every j the first position i with penalties[i] = sorted_penalties[j]
\* that is not in the list yet (for j = 0: the first such i)
SortList(penalties, sorted, j, acc) ==
    IF j >= Len(sorted) THEN acc
    ELSE LET hits == {i \in 0..(Len(penalties) - 1) :
                         /\ sorted[j + 1] = penalties[i + 1]
                         /\ sorted[j + 1] # Infinite
                         /\ (j = 0 \/ i \notin Range(acc))}
         IN  IF hits = {} THEN SortList(penalties, sorted, j + 1, acc)
             ELSE SortList(penalties, sorted, j + 1,
                           Append(acc, CHOOSE i \in hits : \A k \in hits : i <= k))

sort_list(penalties, sorted) ==
    SortList(penalties, sorted, 0, [i \in 1..Len(penalties) |-> 0])

-----------------------------------------------------------------------------
(* gi_aco_mo: solution archive *)

\* a value read past the end of a vector
Garbage == {-1000, 0, Infinite}

\* v[i] for a 0-based i; g is what a read outside the vector yields
ReadAt(v, i, g) == IF 0 <= i /\ i < Len(v) THEN v[i + 1] ELSE g

\* the archive row stored by line 386 for row i (0-based): the penalty is read
\* at the position given by the value sorted_penalties[i]
InitRow(penalties, sorted, slist, P, i, g) ==
    [pen |-> ReadAt(penalties, Quot(sorted[i + 1], 1000), g),
     x |-> P[slist[i + 1] + 1].x,
     f |-> P[slist[i + 1] + 1].f]

RECURSIVE ScanCandidatesWorse(_, _, _, _, _, _)
ScanCandidatesWorse(row, hit, sorted_vector, sorted_list, P, ig) ==
    LET i == ig[1]
        g == ig[2]
        cand == ReadAt(sorted_vector, i, g)
        src == ReadAt(P, ReadAt(sorted_list, i, 0), [x |-> <<g>>, f |-> <<g>>])
    IN  IF i >= Len(sorted_list) THEN [row |-> row, hit |-> hit]
        ELSE IF cand >= row.pen /\ ~hit
        THEN ScanCandidatesWorse([pen |-> cand, x |-> src.x, f |-> src.f],
                                 TRUE, sorted_vector, sorted_list, P, <<i + 1, g>>)
        ELSE [row |-> row, hit |-> hit]

RECURSIVE ScanCandidates(_, _, _, _, _, _)
\* the inner loop of update_SA for one archive row (lines 822-855): row is
\* the row so far, hit tells whether a candidate was stored
ScanCandidates(row, hit, sorted_vector, sorted_list, P, ig) ==
    LET i == ig[1]
        g == ig[2]
        cand == ReadAt(sorted_vector, i, g)
        src == ReadAt(P, ReadAt(sorted_list, i, 0), [x |-> <<g>>, f |-> <<g>>])
    IN  IF i >= Len(sorted_list) THEN [row |-> row, hit |-> hit]
        ELSE IF cand <= row.pen
        THEN ScanCandidates([pen |-> cand, x |-> src.x, f |-> src.f],
                            TRUE, sorted_vector, sorted_list, P, <<i + 1, g>>)
        ELSE [row |-> row, hit |-> hit]

RECURSIVE WalkArchive(_, _, _, _, _, _, _)
\* the outer loop of update_SA (lines 817-864), from row j down to row 0;
\* st carries the archive and the two flags
WalkArchive(st, j, count_2, sorted_vector, sorted_list, P, g) ==
    IF j < 0 \/ count_2 # 1 THEN st
    ELSE LET r == ScanCandidates(st.SA[j + 1], FALSE, sorted_vector, sorted_list, P,
                                 <<0, g>>)
             sa == [st.SA EXCEPT ![j + 1] = r.row]
             ev == st.N_evalstop_count \/ (r.hit /\ j = 0)
             im == st.N_impstop_count \/ (~r.hit /\ j = Len(st.SA) - 1)
         IN  WalkArchive([SA |-> sa, N_evalstop_count |-> ev, N_impstop_count |-> im],
                         j - 1, IF r.hit THEN 1 ELSE 0, sorted_vector, sorted_list, P, g)

\* update_SA (lines 778-877): the archive and the two counters after the call
update_SA(P, sorted_vector, sorted_list, archive, N_impstop, N_evalstop, g) ==
    LET w == WalkArchive([SA |-> archive, N_evalstop_count |-> FALSE,
                          N_impstop_count |-> FALSE],
                         Len(archive) - 1, 1, sorted_vector, sorted_list, P, g)
    IN  [SA |-> w.SA,
         count_impstop |-> IF w.N_impstop_count THEN 0 ELSE N_impstop + 1,
         count_evalstop |-> IF w.N_evalstop_count THEN 0 ELSE N_evalstop + 1]

-----------------------------------------------------------------------------
(* gi_aco_mo: pheromones and offspring *)

\* numerators of pheromone_computation's OMEGA (lines 706-718), row k 0-based
omega_num(ker, k) == ker - k + 1

\* "sum": 1 + 2 + ... + ker
omega_sum(ker) == (ker * (ker + 1)) \div 2

\* OMEGA after the loop of lines 713-718: one weight pushed for each
\* k = 0..ker-1, kept as numerator and denominator
OMEGA(ker) ==
    [k \in 1..ker |-> [num |-> omega_num(ker, k - 1), den |-> omega_sum(ker)]]

\* the pairs of rows compared after the first one: count from 1 while
\* count < ker - 1, k from count + 1 to ker - 1 (lines 737-755)
SigmaPairs(ker) ==
    {<<0, 1>>} \cup {ck \in (1..(ker - 2)) \X (2..(ker - 1)) : ck[1] < ck[2]}

\* sigma of variable h (1-based), as [num, den]: (D_max - D_min) / get_gen(),
\* capped at (ub - lb) / focus when focus is not zero (lines 757-768)
sigma(c, p, archive, h, g) ==
    LET d(a, b) == Abs(ReadAt(archive, a, [x |-> [j \in 1..p.nx |-> g]]).x[h]
                        - ReadAt(archive, b, [x |-> [j \in 1..p.nx |-> g]]).x[h])
        ds == {d(ck[1], ck[2]) : ck \in SigmaPairs(Len(archive))}
        D_max == CHOOSE m \in ds : \A v \in ds : v <= m
        D_min == CHOOSE m \in ds : \A v \in ds : m <= v
        capped == /\ c.focus_num # 0
                  /\ (D_max - D_min) * c.focus_num > (p.ub[h] - p.lb[h]) * c.focus_den * c.gen
    IN  IF capped THEN [num |-> (p.ub[h] - p.lb[h]) * c.focus_den, den |-> c.focus_num]
        ELSE [num |-> D_max - D_min, den |-> c.gen]

\* the draw of one kernel: normal_distribution(mean, sigma)(generator) is
\* mean + sigma * z; z is the n-th draw of the generator seeded with m_seed
normal_z(seed, n) == UniformInt(seed, n, -1, 1)

\* coordinate h of ant j (0-based j, 1-based h) of generate_new_ants
AntCoordinate(c, p, archive, seed, j, h, g) ==
    LET K == Len(archive)
        sg == sigma(c, p, archive, h, g)
        draw(k) == normal_z(seed, (j * p.nx + (h - 1)) * K + k + 1)
        term(k) == omega_num(K, k) * (archive[k + 1].x[h] * sg.den + sg.num * draw(k))
        total[k \in 0..K] == IF k = 0 THEN 0 ELSE total[k - 1] + term(k - 1)
    IN  Saturate(Quot(total[K], omega_sum(K) * sg.den))

\* X_new of generate_new_ants (lines 879-938)
generate_new_ants(c, p, archive, seed, pop_size, g) ==
    [j \in 1..pop_size |->
        [h \in 1..p.nx |-> AntCoordinate(c, p, archive, seed, j - 1, h, g)]]

-----------------------------------------------------------------------------
(* gi_aco_mo: the instance and its operations *)

\* configurations accepted by the constructors (lines 93-164)
\* arguments handed to the constructors; acc, focus and epsilon on a grid
\* whose value 1 stands for 1.0
AcoArgs ==
    {[gen |-> g, acc |-> a, fstop |-> fs, impstop |-> 1, evalstop |-> 1,
      focus_num |-> fo, focus_den |-> 1, ker |-> k, oracle |-> o, epsilon |-> ep] :
        g \in 0..MaxGen, a \in {-1, 0, 1}, fs \in {-1, 0, 1}, fo \in {-1, 0, 1},
        k \in {2, 3}, o \in {-1, 0, 2}, ep \in {-1, 0, 1}}

\* a constructor throws invalid_argument (lines 99-113 and 142-162)
AcoRejects(c) ==
    \/ c.acc >= 1 \/ c.acc < 0
    \/ c.focus_num >= c.focus_den \/ c.focus_num < 0
    \/ c.oracle < 0
    \/ c.epsilon >= 1 \/ c.epsilon < 0

\* configurations of the instances the constructors return (lines 93-164)
AcoConfigs == {c \in AcoArgs : ~AcoRejects(c)}

\* all populations of size n over problem p
OrderedPopulationsOf(p, n) ==
    {[i \in 1..n |-> Individual(p, <<xs[i]>>)] : xs \in [1..n -> p.lb[1]..p.ub[1]]}

AcoInputs ==
    {<<ScalarProblem, P>> : P \in UNION {OrderedPopulationsOf(ScalarProblem, n) : n \in SwarmSizes}}
    \cup {<<ScalarProblem, <<>>>>}
    \cup {<<WideProblem, P>> : P \in PopulationsOf(WideProblem, 2)}
    \cup {<<ConstrainedScalarProblem, P>> : P \in PopulationsOf(ConstrainedScalarProblem, 2)}
    \cup {<<StochasticProblem, P>> : P \in PopulationsOf(StochasticProblem, 2)}
    \cup {<<ThrowingScalarProblem, P>> : P \in PopulationsOf(ThrowingScalarProblem, 2)}

AcoFrame == UNCHANGED <<alg, cfg, calls, m_e, m_seed, m_log, m_velocity, reseeded,
                        next_pop_list, fnds_res, best_non_dom_indices, idx,
                        next_pop_fit, best_next_pop_indices, maxmin, fresh_run, args>>

InitAco ==
    /\ alg = "gi_aco_mo"
    /\ pc = "idle"
    /\ err = ""
    /\ calls = 0
    /\ cfg \in AcoConfigs
    /\ m_seed \in 0..MaxSeed
    /\ m_e = m_seed
    /\ m_log = <<>>
    /\ m_velocity = <<>>
    /\ reseeded = TRUE
    /\ prob = NoProblem
    /\ pop = <<>>
    /\ pop_input = <<>>
    /\ fevals = 0
    /\ gen = 0
    /\ next_pop_list = <<>>
    /\ fnds_res = <<>>
    /\ best_non_dom_indices = <<>>
    /\ idx = 0
    /\ next_pop_fit = <<>>
    /\ best_next_pop_indices = <<>>
    /\ SA = <<>>
    /\ count_impstop = 0
    /\ count_evalstop = 0
    /\ new_ants = <<>>
    /\ prev_best = 0
    /\ maxmin = <<>>
    /\ fresh_run = NoRun
    /\ committed = <<>>
    /\ args = <<>>

\* gi_aco_mo::evolve from its entry to the head of the generation loop
\* (lines 180-238)
AcoEvolve(p, P) ==
    /\ alg = "gi_aco_mo"
    /\ pc = "idle"
    /\ prob' = p
    /\ pop' = P
    /\ pop_input' = P
    /\ committed' = P
    /\ fevals' = 0
    /\ UNCHANGED <<count_impstop, count_evalstop, new_ants, prev_best>>
    /\ AcoFrame
    /\ IF Len(P) = 0 \/ p.stochastic \/ get_nc(p) # 0
       THEN /\ pc' = "error"
            /\ err' = "invalid_argument"
            /\ UNCHANGED <<gen, SA>>
       ELSE IF ReturnsAtOnce(cfg)
       THEN /\ pc' = "done"
            /\ err' = ""
            /\ UNCHANGED <<gen, SA>>
       ELSE IF cfg.ker > Len(P)
       THEN /\ pc' = "error"
            /\ err' = "invalid_argument"
            /\ UNCHANGED <<gen, SA>>
       ELSE /\ pc' = "loop"
            /\ err' = ""
            /\ gen' = 1
            /\ SA' = [i \in 1..cfg.ker |->
                         [pen |-> 1000, x |-> [j \in 1..p.nx |-> 1],
                          f |-> [j \in 1..get_nf(p) |-> 1]]]

\* the first half of one generation of a single-objective problem: the stop
\* tests, the penalties and the archive (lines 243-402)
AcoArchive ==
    /\ alg = "gi_aco_mo"
    /\ pc = "loop"
    /\ gen <= cfg.gen
    /\ prob.nobj <= 1
    /\ UNCHANGED <<prob, pop, pop_input, fevals, gen, new_ants, committed>>
    /\ AcoFrame
    /\ LET NP == Len(pop)
           penalties == Penalties(prob, pop, cfg)
           sorted_penalties == SortValues(penalties)
           slist == sort_list(penalties, sorted_penalties)
           fs == feasible_set(prob, pop, cfg)
           stopped == \/ (cfg.impstop # 0 /\ 0 >= cfg.impstop)
                      \/ (cfg.evalstop # 0 /\ 0 >= cfg.evalstop)
                      \/ \E i \in 1..NP : cfg.fstop # 0 /\ pop[i].f[1] <= cfg.fstop
           init_outside == \E i \in 1..cfg.ker :
                              LET q == Quot(sorted_penalties[i], 1000)
                              IN  q < 0 \/ q >= Len(penalties)
           update_outside == \E i \in DOMAIN slist : slist[i] >= NP
       IN  IF stopped
           THEN /\ pc' = "done"
                /\ err' = ""
                /\ count_impstop' = 0
                /\ count_evalstop' = 0
                /\ UNCHANGED <<SA, prev_best>>
           ELSE IF fs < 1 \/ (gen = 1 /\ fs < cfg.ker)
           THEN /\ pc' = "error"
                /\ err' = "invalid_argument"
                /\ count_impstop' = 0
                /\ count_evalstop' = 0
                /\ UNCHANGED <<SA, prev_best>>
           ELSE IF gen = 1
           THEN \/ /\ \E g \in Garbage :
                         SA' = [i \in 1..cfg.ker |->
                                   InitRow(penalties, sorted_penalties, slist, pop, i - 1, g)]
                   /\ count_impstop' = IF cfg.impstop # 0 THEN 1 ELSE 0
                   /\ count_evalstop' = 0
                   /\ prev_best' = prev_best
                   /\ pc' = "ants"
                   /\ err' = ""
                \/ /\ init_outside
                   /\ pc' = "aborted"
                   /\ UNCHANGED <<err, SA, count_impstop, count_evalstop, prev_best>>
           ELSE \/ /\ \E g \in Garbage :
                         LET u == update_SA(pop, sorted_penalties, slist, SA, 0, 0, g)
                         IN  /\ SA' = u.SA
                             /\ count_impstop' = u.count_impstop
                             /\ count_evalstop' = u.count_evalstop
                   /\ prev_best' = SA[1].pen
                   /\ pc' = "ants"
                   /\ err' = ""
                \/ /\ update_outside
                   /\ pc' = "aborted"
                   /\ UNCHANGED <<err, SA, count_impstop, count_evalstop, prev_best>>

\* the population after the first k passes of the loop of lines 423-432:
\* ant i evaluated and stored with set_xf(i, ant, fitness)
StoreAnts(p, P, ants, k) ==
    [i \in 1..Len(P) |->
        IF i <= k THEN [x |-> ants[i], f |-> Fitness(p, ants[i])] ELSE P[i]]

\* the second half: pheromones, the new ants and their storing with set_xf
\* (lines 406-432)
AcoAnts ==
    /\ alg = "gi_aco_mo"
    /\ pc = "ants"
    /\ \E g \in Garbage :
          LET ants == generate_new_ants(cfg, prob, SA, m_seed, Len(pop), g)
          IN  /\ new_ants' = ants
              /\ \/ /\ pop' = StoreAnts(prob, pop, ants, Len(pop))
                    /\ committed' = pop'
                    /\ fevals' = fevals + Len(pop)
                    /\ gen' = gen + 1
                    /\ pc' = "loop"
                    /\ err' = err
                 \/ \* prob.fitness(ant) throws for ant k
                    \E k \in 0..(Len(pop) - 1) :
                       /\ prob.throws
                       /\ pop' = StoreAnts(prob, pop, ants, k)
                       /\ fevals' = fevals + k
                       /\ pc' = "error"
                       /\ err' = "fitness_error"
                       /\ UNCHANGED <<gen, committed>>
    /\ UNCHANGED <<prob, pop_input, SA, count_impstop, count_evalstop, prev_best>>
    /\ AcoFrame

\* a generation of a problem with more than one objective that evaluates its
\* population again
AcoSkipEvaluating ==
    /\ alg = "gi_aco_mo"
    /\ pc = "loop"
    /\ gen <= cfg.gen
    /\ prob.nobj > 1
    /\ count_impstop' = 0
    /\ count_evalstop' = 0
    /\ gen' = gen + 1
    /\ fevals' = fevals + Len(pop)
    /\ UNCHANGED <<pc, err, prob, pop, pop_input, SA, new_ants, prev_best, committed>>
    /\ AcoFrame

\* one generation of a problem with more than one objective (lines 250-253)
AcoSkip ==
    /\ alg = "gi_aco_mo"
    /\ pc = "loop"
    /\ gen <= cfg.gen
    /\ prob.nobj > 1
    /\ count_impstop' = 0
    /\ count_evalstop' = 0
    /\ gen' = gen + 1
    /\ UNCHANGED <<pc, err, prob, pop, pop_input, fevals, SA, new_ants, prev_best, committed>>
    /\ AcoFrame

\* "return pop" after the loop (line 448)
AcoReturn ==
    /\ alg = "gi_aco_mo"
    /\ pc = "loop"
    /\ gen > cfg.gen
    /\ pc' = "done"
    /\ UNCHANGED <<err, prob, pop, pop_input, fevals, gen, SA, count_impstop,
                   count_evalstop, new_ants, prev_best, committed>>
    /\ AcoFrame

NextAco ==
    \/ \E pP \in AcoInputs : AcoEvolve(pP[1], pP[2])
    \/ AcoArchive
    \/ AcoAnts
    \/ AcoSkip
    \/ AcoReturn

SpecAco == InitAco /\ [][NextAco]_vars

-----------------------------------------------------------------------------
(* compute_maxmin as a pure function of the fitness matrix *)

MaxRows == 3
MaxFit == 2

FitnessMatrices ==
    UNION {[1..n -> [1..2 -> 0..MaxFit]] : n \in 2..MaxRows}

InitMaxMin ==
    /\ alg = "maxmin"
    /\ pc = "idle"
    /\ err = ""
    /\ calls = 0
    /\ cfg = [gen |-> 0]
    /\ m_seed = 0
    /\ m_e = 0
    /\ m_log = <<>>
    /\ m_velocity = <<>>
    /\ reseeded = FALSE
    /\ prob = NoProblem
    /\ pop = <<>>
    /\ pop_input = <<>>
    /\ fevals = 0
    /\ gen = 0
    /\ next_pop_list = <<>>
    /\ fnds_res = <<>>
    /\ best_non_dom_indices = <<>>
    /\ idx = 0
    /\ next_pop_fit \in FitnessMatrices
    /\ best_next_pop_indices = <<>>
    /\ SA = <<>>
    /\ count_impstop = 0
    /\ count_evalstop = 0
    /\ new_ants = <<>>
    /\ prev_best = 0
    /\ maxmin = <<>>
    /\ fresh_run = NoRun
    /\ committed = <<>>
    /\ args = <<>>

\* compute_maxmin(maxmin, fit) applied to the matrix
ComputeMaxMin ==
    /\ alg = "maxmin"
    /\ pc = "idle"
    /\ maxmin' = compute_maxmin(next_pop_fit)
    /\ pc' = "done"
    /\ UNCHANGED <<alg, err, calls, cfg, m_e, m_seed, m_log, m_velocity, reseeded,
                   prob, pop, pop_input, fevals, gen, next_pop_list, fnds_res,
                   best_non_dom_indices, idx, next_pop_fit, best_next_pop_indices,
                   SA, count_impstop, count_evalstop, new_ants, prev_best, fresh_run,
                   committed, args>>

SpecMaxMin == InitMaxMin /\ [][ComputeMaxMin]_vars

-----------------------------------------------------------------------------
(* population::set_xf as an operation on a population of its own *)

MaxSize == 2

\* vectors handed as x or f: of the right length, too short and too long
SetXfVectors == UNION {[1..n -> 0..1] : n \in 0..2}

\* the populations of up to MaxSize individuals of problem p
SetXfPopulations(p) ==
    UNION {[1..n -> {Individual(p, <<v>>) : v \in 0..1}] : n \in 0..MaxSize}

\* set_xf without any test of its arguments
population_set_xf_unchecked(p, P, i, x, f) ==
    [pop |-> IF i < Len(P) THEN set_xf(P, i, x, f) ELSE Append(P, [x |-> x, f |-> f]),
     status |-> "done"]

\* population::set_xf(i, x, f) on population P of problem p: the index and
\* the two dimensions are tested first, then individual i is replaced; the
\* problem is not called
population_set_xf(p, P, i, x, f) ==
    IF i >= Len(P) \/ Len(x) # p.nx \/ Len(f) # get_nf(p)
    THEN [pop |-> P, status |-> "error"]
    ELSE [pop |-> set_xf(P, i, x, f), status |-> "done"]

InitSetXf ==
    /\ alg = "population"
    /\ pc = "idle"
    /\ err = ""
    /\ calls = 0
    /\ cfg = [gen |-> 0]
    /\ m_seed = 0
    /\ m_e = 0
    /\ m_log = <<>>
    /\ m_velocity = <<>>
    /\ reseeded = FALSE
    /\ prob \in {ScalarProblem, WideProblem}
    /\ pop \in SetXfPopulations(prob)
    /\ pop_input = pop
    /\ fevals \in 0..1
    /\ gen = 0
    /\ next_pop_list = <<>>
    /\ fnds_res = <<>>
    /\ best_non_dom_indices = <<>>
    /\ idx = 0
    /\ next_pop_fit = <<>>
    /\ best_next_pop_indices = <<>>
    /\ SA = <<>>
    /\ count_impstop = 0
    /\ count_evalstop = 0
    /\ new_ants = <<>>
    /\ prev_best = 0
    /\ maxmin = <<>>
    /\ fresh_run = NoRun
    /\ committed = <<>>
    /\ args = <<>>

\* one call pop.set_xf(i, x, f)
SetXf(i, x, f) ==
    /\ alg = "population"
    /\ pc = "idle"
    /\ args' = [i |-> i, x |-> x, f |-> f, fevals |-> fevals]
    /\ LET r == population_set_xf(prob, pop, i, x, f)
       IN  /\ pop' = r.pop
           /\ pc' = r.status
           /\ err' = IF r.status = "error" THEN "invalid_argument" ELSE ""
    /\ UNCHANGED <<alg, calls, cfg, m_e, m_seed, m_log, m_velocity, reseeded, prob,
                   pop_input, fevals, gen, next_pop_list, fnds_res,
                   best_non_dom_indices, idx, next_pop_fit, best_next_pop_indices,
                   SA, count_impstop, count_evalstop, new_ants, prev_best, maxmin,
                   fresh_run, committed>>

NextSetXf == \E i \in 0..MaxSize, x \in SetXfVectors, f \in SetXfVectors : SetXf(i, x, f)

SpecSetXf == InitSetXf /\ [][NextSetXf]_vars

-----------------------------------------------------------------------------
(* Both solvers *)

Init == InitNspso \/ InitAco

Next == NextNspso \/ NextAco

Spec == Init /\ [][Next]_vars

-----------------------------------------------------------------------------
(* Properties *)

Survivors == Range(best_next_pop_indices)

Discarded == (0..(Len(next_pop_fit) - 1)) \ Survivors

AfterSelection == alg = "nspso" /\ pc = "loop" /\ next_pop_fit # <<>>

\* C1: with "crowding distance" or "niche count", after the selection of a
\* generation no survivor lies in a strictly worse non-dominated front of the
\* combined set of parents and offspring than a discarded particle.
C1_SurvivorsByCombinedRank ==
    (AfterSelection /\ cfg.diversity_mechanism # "max min") =>
        \A s \in Survivors : \A d \in Discarded :
            NdRank(next_pop_fit, s) <= NdRank(next_pop_fit, d)

\* C2: with "max min", after the selection of a generation no discarded
\* particle of the combined set has a strictly smaller MaxMin score than a
\* survivor.
C2_SurvivorsBySmallestMaxMin ==
    (AfterSelection /\ cfg.diversity_mechanism = "max min") =>
        LET mm == compute_maxmin(next_pop_fit)
        IN  \A s \in Survivors : \A d \in Discarded : mm[s + 1] <= mm[d + 1]

\* C3: whenever evolve of either solver returns normally, the returned
\* population has as many individuals as the input population.
C3_SizePreserved == pc = "done" => Len(pop) = Len(pop_input)

C3_ReturnedAfterGenerations ==
    /\ pc = "done"
    /\ gen > 1
    /\ fevals > 0
    /\ Len(pop) = 3

\* C4: nspso, input within bounds: at every point of evolve every individual
\* of the population and every particle of next_pop_list lies within the
\* bounds of the problem.
C4_NspsoWithinBounds ==
    (alg = "nspso" /\ pc \in {"loop", "move", "select", "done"}) =>
        /\ \A i \in DOMAIN pop : InBounds(prob, pop[i].x)
        /\ \A i \in DOMAIN next_pop_list : InBounds(prob, next_pop_list[i].cur_x)

\* an offspring was stopped at a bound (position at the bound, velocity zeroed)
\* after leaving its parent's position
C4_OffspringClamped ==
    /\ alg = "nspso"
    /\ pc = "select"
    /\ \E i \in 1..Len(pop) :
          LET child == next_pop_list[i + Len(pop)]
          IN  /\ child.cur_x[1] = prob.ub[1]
              /\ child.cur_v[1] = 0
              /\ child.cur_x # next_pop_list[i].cur_x

\* C5: gi_aco_mo, input within bounds: every individual of the population and
\* every row of the solution archive lies within the bounds of the problem.
C5_AcoWithinBounds ==
    (alg = "gi_aco_mo" /\ pc \in {"loop", "ants", "done"}) =>
        /\ \A i \in DOMAIN pop : InBounds(prob, pop[i].x)
        /\ \A i \in DOMAIN SA : InBounds(prob, SA[i].x)

\* C6: set_seed(s) followed by evolve(P) on an instance with a history gives
\* the population and the log that set_seed(s), evolve(P) gives on a fresh
\* instance.
C6_ReseedDeterminism ==
    (/\ alg = "nspso"
     /\ pc = "done"
     /\ calls >= 2
     /\ reseeded
     /\ fresh_run # NoRun
     /\ m_seed = fresh_run.seed
     /\ prob = fresh_run.prob
     /\ pop_input = fresh_run.input) =>
        (pop = fresh_run.pop /\ m_log = fresh_run.log)

\* C7: at every point of every evolve call every velocity component of every
\* particle is within the band (ub - lb) * v_coeff of the problem being evolved.
C7_VelocityBand ==
    (alg = "nspso" /\ pc \in {"loop", "move", "select"}) =>
        \A i \in DOMAIN next_pop_list : \A j \in 1..prob.nx :
            Abs(next_pop_list[i].cur_v[j]) <= vwidth(cfg, prob, j)

NonDominated(F, i) == ~ \E j \in 0..(Len(F) - 1) : Dominates(F[j + 1], F[i + 1])

WeaklyCovered(F, i) ==
    \E j \in (0..(Len(F) - 1)) \ {i} : \A k \in DOMAIN F[i + 1] : F[j + 1][k] <= F[i + 1][k]

\* C8 as stated: the score of row i is negative iff row i is non-dominated.
C8_NegativeIffNonDominated ==
    (alg = "maxmin" /\ pc = "done") =>
        \A i \in 0..(Len(next_pop_fit) - 1) :
            (maxmin[i + 1] < 0) <=> NonDominated(next_pop_fit, i)

\* C8 amended: the score of row i is negative iff no other row is less than
\* or equal to row i in every objective (a duplicate of row i counts).
C8_NegativeIffNotCovered ==
    (alg = "maxmin" /\ pc = "done") =>
        \A i \in 0..(Len(next_pop_fit) - 1) :
            (maxmin[i + 1] < 0) <=> ~WeaklyCovered(next_pop_fit, i)

\* a matrix with a duplicated non-dominated row next to a row with negative score
C8_DuplicatedRowScored ==
    /\ alg = "maxmin"
    /\ pc = "done"
    /\ Len(next_pop_fit) = 3
    /\ next_pop_fit[1] = next_pop_fit[2]
    /\ NonDominated(next_pop_fit, 0)
    /\ maxmin[1] = 0
    /\ maxmin[3] < 0

ArchiveBuilt == alg = "gi_aco_mo" /\ (pc = "ants" \/ (pc \in {"loop", "done"} /\ gen > 1))

\* C9: at the end of every generation of a single-objective evolve the
\* archive has ker rows, in ascending order of penalty, all with a finite
\* penalty.
C9_ArchiveSortedFeasible ==
    (ArchiveBuilt /\ prob.nobj = 1) =>
        /\ Len(SA) = cfg.ker
        /\ \A i \in 1..(Len(SA) - 1) : SA[i].pen <= SA[i + 1].pen
        /\ \A i \in 1..Len(SA) : SA[i].pen < Infinite

\* C10: the penalty of the best archive row after the update of a generation
\* is not larger than it was at the end of the generation before.
C10_BestPenaltyNonIncreasing ==
    (alg = "gi_aco_mo" /\ pc = "ants" /\ gen >= 2) => SA[1].pen <= prev_best

\* an update that improved the best row
C10_BestImproved ==
    /\ alg = "gi_aco_mo"
    /\ pc = "ants"
    /\ gen >= 2
    /\ SA[1].pen < prev_best


\* C11: once count_impstop has reached impstop > 0 (or count_evalstop has
\* reached evalstop > 0), the next generation of a single-objective evolve
\* starts by returning the population, without any further evaluation.
C11_StopsWhenCounterReached ==
    [][(/\ alg = "gi_aco_mo"
        /\ pc = "loop"
        /\ gen <= cfg.gen
        /\ prob.nobj = 1
        /\ \/ (cfg.impstop > 0 /\ count_impstop >= cfg.impstop)
           \/ (cfg.evalstop > 0 /\ count_evalstop >= cfg.evalstop))
       => (pc' = "done" /\ pop' = pop /\ fevals' = fevals)]_vars


\* the individuals of P that pass the feasibility screen of lines 297-311
PassScreen(p, P, c) ==
    {i \in 1..Len(P) :
        /\ \A k \in 1..p.nec : Abs(P[i].f[k + 1]) <= c.acc
        /\ \A k \in 1..p.nic : P[i].f[k + 1] < -c.acc}

\* C12: a single-objective evolve of at least one generation whose initial
\* population has fewer than ker individuals passing the feasibility screen
\* fails with invalid_argument, and no ant is generated or evaluated: the
\* population is the input and the evaluation counter has not moved.
C12_TooFewFeasibleRejected ==
    (/\ alg = "gi_aco_mo"
     /\ pc # "idle"
     /\ prob.nobj = 1
     /\ cfg.gen >= 1
     /\ Cardinality(PassScreen(prob, pop_input, cfg)) < cfg.ker)
    => (/\ pc = "error"
        /\ err = "invalid_argument"
        /\ fevals = 0
        /\ new_ants = <<>>
        /\ pop = pop_input)

\* a rejected run none of whose initial individuals passes the screen
C12_NoneFeasibleRejected ==
    /\ alg = "gi_aco_mo"
    /\ pc = "error"
    /\ prob.nobj = 1
    /\ cfg.gen >= 1
    /\ Len(pop_input) >= cfg.ker
    /\ PassScreen(prob, pop_input, cfg) = {}


\* the documented preconditions of evolve on problem p and population P:
\* a non-empty population, a deterministic problem without constraints and,
\* for nspso, at least two objectives and one continuous variable
Suitable(a, p, P) ==
    /\ P # <<>>
    /\ ~p.stochastic
    /\ p.nec + p.nic = 0
    /\ a = "nspso" => (p.nobj >= 2 /\ p.nx - p.nix > 0)

\* C13: for both solvers, an evolve with gen = 0 whose preconditions hold
\* returns a population equal to its input, index by index in x and f, and
\* evaluates no fitness.
C13_ZeroGenerationsIdentity ==
    (pc # "idle" /\ cfg.gen = 0 /\ Suitable(alg, prob, pop_input))
    => (/\ pc = "done"
        /\ Len(pop) = Len(pop_input)
        /\ \A i \in 1..Len(pop) : pop[i].x = pop_input[i].x /\ pop[i].f = pop_input[i].f
        /\ fevals = 0)

\* a run of zero generations has returned a population of several individuals
C13_ZeroGenerationsReturned ==
    /\ pc = "done"
    /\ cfg.gen = 0
    /\ Suitable(alg, prob, pop_input)
    /\ Len(pop_input) >= 2
    /\ pop = pop_input


\* C14: the nspso constructor rejects every argument set with one of min_w,
\* max_w, c1, c2, chi not strictly positive, min_w > max_w, v_coeff outside
\* (0,1], leader_selection_range outside (0,100] or an unknown diversity
\* mechanism; hence every constructed instance has all of them in range.
C14_ConstructedWithinRanges ==
    alg = "nspso"
    => (/\ cfg.min_w > 0 /\ cfg.max_w > 0 /\ cfg.c1 > 0 /\ cfg.c2 > 0 /\ cfg.chi > 0
        /\ cfg.min_w <= cfg.max_w
        /\ cfg.v_coeff_num > 0 /\ cfg.v_coeff_num <= cfg.v_coeff_den
        /\ cfg.leader_selection_range > 0 /\ cfg.leader_selection_range <= 100
        /\ cfg.diversity_mechanism \in {"crowding distance", "niche count", "max min"})


\* C15: nspso::evolve fails with invalid_argument, before any fitness
\* evaluation, when the population is empty, the problem has no continuous
\* variable (n_x - n_ix = 0), is stochastic, has a constraint or has fewer
\* than two objectives.
C15_UnsuitableRejected ==
    (/\ alg = "nspso"
     /\ pc # "idle"
     /\ \/ pop_input = <<>>
        \/ prob.nx - prob.nix = 0
        \/ prob.stochastic
        \/ prob.nec + prob.nic > 0
        \/ prob.nobj < 2)
    => (pc = "error" /\ err = "invalid_argument" /\ fevals = 0)


\* C16: the gi_aco_mo constructors reject acc outside [0,1), focus outside
\* [0,1), oracle < 0, fstop < 0 and epsilon outside [0,1); hence no
\* constructed instance stores an out-of-range value of these parameters.
C16_ConstructedWithinRanges ==
    alg = "gi_aco_mo"
    => (/\ cfg.acc >= 0 /\ cfg.acc < 1
        /\ cfg.focus_num >= 0 /\ cfg.focus_num < cfg.focus_den
        /\ cfg.oracle >= 0
        /\ cfg.fstop >= 0
        /\ cfg.epsilon >= 0 /\ cfg.epsilon < 1)


LoggedGenerations(c) ==
    {g \in 1..c.gen : g % c.verbosity = 1 \/ c.verbosity = 1}

\* C18: in the log of an nspso evolve call with verbosity > 0 the generation
\* numbers of successive entries strictly increase and their fevals do not
\* decrease; when the call has returned, the log has an entry exactly for
\* the generations g of 1..gen with g mod verbosity = 1 (every generation
\* when verbosity = 1).
C18_LogMonotoneAndExact ==
    (alg = "nspso" /\ cfg.verbosity > 0)
    => (/\ \A i \in 1..(Len(m_log) - 1) :
              /\ m_log[i].gen < m_log[i + 1].gen
              /\ m_log[i].fevals <= m_log[i + 1].fevals
        /\ pc = "done"
              => {m_log[i].gen : i \in DOMAIN m_log} = LoggedGenerations(cfg))

\* a returned run with verbosity above 1 that logged some generations and
\* skipped others
C18_LogWithSkippedGenerations ==
    /\ alg = "nspso"
    /\ pc = "done"
    /\ cfg.verbosity > 1
    /\ m_log # <<>>
    /\ Len(m_log) < cfg.gen


\* C19: saving an nspso instance and loading it into another one preserves
\* the configuration, the state of the random engine, the seed, the
\* verbosity, the log and the velocity cache.
C19_RoundTripPreservesInstance ==
    [][NspsoSaveLoad => UNCHANGED <<cfg, m_e, m_seed, m_log, m_velocity>>]_vars


\* the arguments of the last set_xf call fit the population it was applied to
SetXfArgsValid ==
    /\ args.i < Len(pop_input)
    /\ Len(args.x) = prob.nx
    /\ Len(args.f) = prob.nobj + prob.nec + prob.nic

\* C20: set_xf(i, x, f) with i < size and x, f of the problem's dimensions
\* replaces exactly the vectors of individual i by x and f and leaves every
\* other individual, the size and the fevals counter as they were; with an
\* index out of range or an x or f of the wrong length it raises
\* invalid_argument and changes nothing.
C20_SetXfReplacesOneOrNothing ==
    (alg = "population" /\ pc # "idle")
    => /\ Len(pop) = Len(pop_input)
       /\ fevals = args.fevals
       /\ IF SetXfArgsValid
          THEN /\ pc = "done"
               /\ pop[args.i + 1].x = args.x
               /\ pop[args.i + 1].f = args.f
               /\ \A j \in 1..Len(pop) : j # args.i + 1 => pop[j] = pop_input[j]
          ELSE /\ pc = "error"
               /\ err = "invalid_argument"
               /\ pop = pop_input

\* one individual of a population of several has been replaced
C20_OneIndividualReplaced ==
    /\ alg = "population"
    /\ pc = "done"
    /\ Len(pop) >= 2
    /\ pop # pop_input


\* update_SA stores a candidate of the running generation in at least one
\* archive row: the scan of the last row, the first one visited, has a hit
AnyRowReplaced ==
    LET penalties == Penalties(prob, pop, cfg)
        sorted_penalties == SortValues(penalties)
    IN  ScanCandidates(SA[Len(SA)], FALSE, sorted_penalties,
                       sort_list(penalties, sorted_penalties), pop, <<0, 0>>).hit

\* C21: in every generation after the first, update_SA resets count_impstop
\* to 0 exactly when at least one archive row is replaced and count_evalstop
\* to 0 whenever the best row is replaced; a counter that is not reset is
\* one more than it was.
C21_CountersFollowReplacements ==
    [][(/\ alg = "gi_aco_mo"
        /\ pc = "loop"
        /\ pc' = "ants"
        /\ gen >= 2)
       => (/\ count_impstop' = 0 <=> AnyRowReplaced
           /\ count_impstop' \in {0, count_impstop + 1}
           /\ SA'[1] # SA[1] => count_evalstop' = 0
           /\ count_evalstop' \in {0, count_evalstop + 1})]_vars


\* C22: after the first generation's archive initialisation, row i of the
\* archive holds the penalty, x and f of the individual with the i-th
\* smallest penalty of the initial population, no individual filling two
\* rows: some one-to-one choice of ker individuals, in ascending order of
\* penalty and no worse than any individual left out, makes up the rows.
C22_ArchiveHoldsBestIndividuals ==
    (alg = "gi_aco_mo" /\ pc = "ants" /\ gen = 1 /\ prob.nobj = 1)
    => \E pi \in [1..cfg.ker -> 1..Len(pop_input)] :
          LET pen(k) == penalty_computation(pop_input[k].f, cfg)
          IN  /\ \A i, j \in 1..cfg.ker : i # j => pi[i] # pi[j]
              /\ \A i \in 1..cfg.ker :
                    SA[i] = [pen |-> pen(pi[i]), x |-> pop_input[pi[i]].x,
                             f |-> pop_input[pi[i]].f]
              /\ \A i \in 1..(cfg.ker - 1) : pen(pi[i]) <= pen(pi[i + 1])
              /\ \A k \in 1..Len(pop_input) :
                    (\A i \in 1..cfg.ker : pi[i] # k) => pen(k) >= pen(pi[cfg.ker])


\* C23: for every particle of every generation of an instance with
\* leader_selection_range in (0,100], ext never exceeds the size of the
\* leader set minus one, so every leader_idx of [0, ext] is the index of an
\* entry of the leader set.
C23_LeaderDrawWithinLeaderSet ==
    (alg = "nspso" /\ pc = "move" /\ cfg.leader_selection_range > 0)
    => LeaderExt(Len(best_non_dom_indices), cfg.leader_selection_range)
           <= Len(best_non_dom_indices) - 1


\* C24: with "niche count" and "max min" and a swarm of at least two, the
\* leader set of every generation holds at least two pairwise distinct
\* indices of the population; with niche count and a single-member front 0
\* that member stays the first leader.
C24_AtLeastTwoLeaders ==
    (/\ alg = "nspso"
     /\ pc = "move"
     /\ cfg.diversity_mechanism \in {"niche count", "max min"}
     /\ Len(pop) >= 2)
    => (/\ Len(best_non_dom_indices) >= 2
        /\ \A i \in DOMAIN best_non_dom_indices :
              best_non_dom_indices[i] \in 0..(Len(pop) - 1)
        /\ \A i, j \in DOMAIN best_non_dom_indices :
              i # j => best_non_dom_indices[i] # best_non_dom_indices[j]
        /\ (cfg.diversity_mechanism = "niche count" /\ Len(fnds_res[1]) = 1)
              => best_non_dom_indices[1] = fnds_res[1][1])


RECURSIVE SumOfNumerators(_, _)
SumOfNumerators(w, n) == IF n = 0 THEN 0 ELSE w[n].num + SumOfNumerators(w, n - 1)

\* C25: pheromone_computation produces exactly ker weights, the one of the
\* row of rank k (k = 1 for the best row) being (ker - k + 1) / S with
\* S = ker (ker + 1) / 2, and the weights sum to 1.
C25_WeightsByRankSumToOne ==
    (alg = "gi_aco_mo" /\ pc = "ants")
    => LET w == OMEGA(cfg.ker)
           S == (cfg.ker * (cfg.ker + 1)) \div 2
       IN  /\ Len(w) = cfg.ker
           /\ \A k \in 1..cfg.ker : w[k].num * S = (cfg.ker - k + 1) * w[k].den
           /\ \A k \in 1..cfg.ker : SumOfNumerators(w, cfg.ker) = w[k].den


\* C26: every entry of next_pop_list, copied parent or appended offspring, in
\* every generation, has its personal best equal to its current position and
\* fitness, so the cognitive term of the velocity update is zero.
C26_PersonalBestIsCurrent ==
    alg = "nspso"
    => \A i \in DOMAIN next_pop_list :
          /\ next_pop_list[i].best_x = next_pop_list[i].cur_x
          /\ next_pop_list[i].best_f = next_pop_list[i].cur_f
          /\ \A j \in DOMAIN next_pop_list[i].cur_x :
                cfg.c1 * (next_pop_list[i].best_x[j] - next_pop_list[i].cur_x[j]) = 0

\* an offspring that moved away from its parent has been appended in a second
\* generation, after one selection
C26_OffspringAppendedAfterSelection ==
    /\ alg = "nspso"
    /\ pc \in {"move", "select"}
    /\ gen >= 2
    /\ Len(next_pop_list) > Len(pop)
    /\ cfg.c1 > 0
    /\ \E i \in 1..Len(pop) : \E k \in (Len(pop) + 1)..Len(next_pop_list) :
          /\ next_pop_list[k].cur_x # next_pop_list[i].cur_x
          /\ \A h \in 1..Len(pop) : next_pop_list[k].cur_x # next_pop_list[h].cur_x


\* C27: evolve terminates: for a population accepted by the preamble, a swarm
\* of one included, the leader is drawn for every particle and evolve returns
\* after exactly gen generations.
C27_SwarmOfOneReturns ==
    (alg = "nspso" /\ pc = "loop" /\ gen = 1 /\ Len(pop) = 1
        /\ ~prob.throws /\ prob.nix = 0)
    ~> (pc = "done" /\ gen = cfg.gen + 1)


\* the penalties of the archive rows, best first
ArchivePenalties(archive) == SortValues([i \in DOMAIN archive |-> archive[i].pen])

\* C28: update_SA is elitist over the union: after it the ker archive
\* penalties are the ker smallest penalties of the previous rows and the
\* current candidates together, and no candidate is stored in more rows than
\* there are individuals equal to it.
C28_ArchiveKeepsBestOfUnion ==
    [][(alg = "gi_aco_mo" /\ pc = "loop" /\ pc' = "ants" /\ gen >= 2)
       => LET candidates == [k \in DOMAIN pop |-> penalty_computation(pop[k].f, cfg)]
              union == SortValues([i \in DOMAIN SA |-> SA[i].pen] \o candidates)
              replaced == {i \in DOMAIN SA : SA'[i] # SA[i]}
          IN  /\ ArchivePenalties(SA') = SubSeq(union, 1, cfg.ker)
              /\ \A i \in replaced :
                    Cardinality({j \in replaced : SA'[j] = SA'[i]})
                        <= Cardinality({k \in DOMAIN pop :
                                           /\ pop[k].x = SA'[i].x
                                           /\ pop[k].f = SA'[i].f})]_vars


\* C29: gi_aco_mo on a problem with more than one objective is a no-op: when
\* the preconditions hold (ker not above the population size included) and
\* gen >= 1, evolve evaluates no fitness, raises no error and returns a
\* population identical to its input.
C29_MultiObjectiveIsNoOp ==
    (/\ alg = "gi_aco_mo"
     /\ pc # "idle"
     /\ prob.nobj > 1
     /\ cfg.gen >= 1
     /\ Suitable(alg, prob, pop_input)
     /\ cfg.ker <= Len(pop_input))
    => /\ pc \in {"loop", "done"}
       /\ err = ""
       /\ fevals = 0
       /\ pop = pop_input
       /\ CallerPopulation(pop_input, pop, pc) = pop_input

\* a two-objective evolve of two generations has returned
C29_MultiObjectiveReturned ==
    /\ alg = "gi_aco_mo"
    /\ pc = "done"
    /\ prob.nobj > 1
    /\ cfg.gen >= 2
    /\ gen = cfg.gen + 1
    /\ cfg.ker <= Len(pop_input)


\* C30: the feasibility screen is vacuous: in every generation of an accepted
\* single-objective evolve the problem has no constraint, every individual
\* passes the screen and gets the penalty penalty_computation returns, never
\* the infinity the screen stores, and with ker not above the population size neither the "fewer than ker feasible" nor the "no feasible
\* individual" error is raised.
C30_ScreenPassesEveryIndividual ==
    [][(alg = "gi_aco_mo" /\ pc = "loop" /\ prob.nobj = 1 /\ gen <= cfg.gen)
       => LET NP == Len(pop)
              penalties == Penalties(prob, pop, cfg)
          IN  /\ prob.nec = 0
              /\ prob.nic = 0
              /\ cfg.ker <= NP
              /\ \A i \in 1..NP : Feasible(prob, pop[i].f, cfg)
              /\ \A i \in 1..NP : penalties[NP + i] = penalty_computation(pop[i].f, cfg)
              /\ feasible_set(prob, pop, cfg) = NP
              /\ pc' # "error"]_vars

\* the screen has been passed in a second generation, by a population with
\* exactly ker individuals
C30_ScreenPassedTwice ==
    /\ alg = "gi_aco_mo"
    /\ pc = "ants"
    /\ gen = 2
    /\ prob.nobj = 1
    /\ cfg.ker = Len(pop)
    /\ feasible_set(prob, pop, cfg) = Len(pop)

=============================================================================
